---------------------------- MODULE Spec2Model ----------------------------
(***************************************************************************)
(* State-machine model of src/src/App.tsx: the React component App of the  *)
(* SVG gradient generator.  The state is the component's useState cells,   *)
(* the clock Date.now() reads, the markup of the last render (svgCode),    *)
(* the clipboard writes in flight, the clipboard, the pending reset timers *)
(* of the "Copied!" label and the last downloaded file.                    *)
(*                                                                         *)
(* Markup is modelled as the sequence of tags of the template string, each *)
(* tag with its attributes in source order and every attribute value the   *)
(* string the template literal produces (numbers are formatted).           *)
(***************************************************************************)
EXTENDS Integers, Sequences, FiniteSets

VARIABLES gradientType, angle, colorStops, noise, copied,
          clock, svgCode, pendingWrites, clipboard, timers, download

vars == <<gradientType, angle, colorStops, noise, copied,
          clock, svgCode, pendingWrites, clipboard, timers, download>>

config == <<gradientType, angle, colorStops, noise>>

(***************************************************************************)
(* Bounds of the model.                                                    *)
(***************************************************************************)
\* first reading of Date.now() (milliseconds)
ClockStart == 1000
\* milliseconds the clock may advance while the stops are edited
MaxTicks == 1
\* the stop list is explored up to this length
MaxStops == 3
\* stops added within one reading of the clock
MaxBurst == 2
\* clipboard writes in flight plus reset timers pending
MaxPending == 2
\* seconds during which the copy button is clicked
MaxSeconds == 2

(***************************************************************************)
(* Number formatting: Number.prototype.toString, as the template literals  *)
(* and Date.now().toString() apply it.                                     *)
(***************************************************************************)
Digit(d) ==
    CASE d = 0 -> "0" [] d = 1 -> "1" [] d = 2 -> "2" [] d = 3 -> "3"
      [] d = 4 -> "4" [] d = 5 -> "5" [] d = 6 -> "6" [] d = 7 -> "7"
      [] d = 8 -> "8" [] d = 9 -> "9" [] d = 10 -> "a" [] d = 11 -> "b"
      [] d = 12 -> "c" [] d = 13 -> "d" [] d = 14 -> "e" [] d = 15 -> "f"

RECURSIVE toStringRadix(_, _)
toStringRadix(n, radix) ==
    IF n < radix THEN Digit(n)
    ELSE toStringRadix(n \div radix, radix) \o Digit(n % radix)

toString(n) == toStringRadix(n, 10)

RECURSIVE padStart(_, _, _)
padStart(s, width, fill) ==
    IF Len(s) >= width THEN s ELSE padStart(fill \o s, width, fill)

(***************************************************************************)
(* Program constants and the values the controls deliver.                  *)
(***************************************************************************)
\* offset of a new stop
DefaultOffset == 50
\* Math.random() * 16777215, floored, is below this
RandomRange == 16777215
\* min and max of the angle range input
AngleMin == 0
AngleMax == 360
\* delay of the timer that resets the "Copied!" label (milliseconds)
CopiedDelay == 2000

\* values of Math.floor(Math.random()*16777215) that are explored
RandomDraws == {r \in {6717162} : r < RandomRange}
\* values the colour inputs deliver
ColorPicks == {"#764ba2"}
\* values the offset number inputs deliver (an emptied input gives 0)
OffsetInputs == {0, 100}
\* positions a range input of step 1 has, among which the control's range selects
AngleSamples == {0, 90, 180, 270, 360, 450}
\* faulty variant: the control without its max
AngleControlMutant == AngleSamples
AngleControl == {v \in AngleSamples : v >= AngleMin /\ v <= AngleMax}
\* base frequencies in thousandths (range input 0.001 .. 0.1, step 0.001)
FrequencyControl == {20, 100}
\* range input 1 .. 8
OctavesControl == {3, 8}
\* range input 0 .. 100
ScaleControl == {0, 20}

(***************************************************************************)
(* Colour stops.                                                           *)
(***************************************************************************)
initialColorStops ==
    << [id |-> "1", color |-> "#667eea", offset |-> 0],
       [id |-> "2", color |-> "#764ba2", offset |-> 100] >>

initialNoise ==
    [enabled |-> FALSE, baseFrequency |-> 20, numOctaves |-> 3, scale |-> 20]

\* '#' + Math.floor(Math.random()*16777215).toString(16).padStart(6, '0')
randomColor(r) == "#" \o padStart(toStringRadix(r, 16), 6, "0")

\* faulty variant: the new stop at offset 0
newStopMutant(now, r) ==
    [id |-> toString(now), color |-> randomColor(r), offset |-> 0]
newStop(now, r) ==
    [id |-> toString(now), color |-> randomColor(r), offset |-> DefaultOffset]

\* Array.prototype.sort((a, b) => a.offset - b.offset): a stable sort
RECURSIVE insertByOffset(_, _)
insertByOffset(sorted, e) ==
    IF sorted = <<>> THEN <<e>>
    ELSE IF sorted[Len(sorted)].offset <= e.offset THEN Append(sorted, e)
    ELSE Append(insertByOffset(SubSeq(sorted, 1, Len(sorted) - 1), e),
                sorted[Len(sorted)])

RECURSIVE sortFrom(_, _)
sortFrom(sorted, rest) ==
    IF rest = <<>> THEN sorted
    ELSE sortFrom(insertByOffset(sorted, Head(rest)), Tail(rest))

\* faulty variant: the sort left out
sortByOffsetMutant(s) == s
sortByOffset(s) == sortFrom(<<>>, s)

\* colorStops.filter(stop => stop.id !== id)
filterOut(s, id) == SelectSeq(s, LAMBDA stop : stop.id # id)

\* colorStops.map(stop => stop.id === id ? { ...stop, [field]: value } : stop)
mapField(s, id, field, value) ==
    [i \in 1..Len(s) |->
        IF s[i].id = id THEN [s[i] EXCEPT ![field] = value] ELSE s[i]]

stopIds(s) == {s[i].id : i \in 1..Len(s)}

(***************************************************************************)
(* generateSVG.  A tag is [kind, tag, attrs]: kind "open" (<t ...>),       *)
(* "empty" (<t ... />) or "close" (</t>), attrs the attributes in source   *)
(* order as <<name, value>> pairs.                                         *)
(***************************************************************************)
Open(tag, attrs) == [kind |-> "open", tag |-> tag, attrs |-> attrs]
Empty(tag, attrs) == [kind |-> "empty", tag |-> tag, attrs |-> attrs]
Close(tag) == [kind |-> "close", tag |-> tag, attrs |-> <<>>]

\* `${noise.baseFrequency}` for a frequency of k thousandths, 1 <= k <= 100
RECURSIVE stripZeros(_, _)
stripZeros(k, digits) ==
    IF k % 10 = 0 /\ digits > 1 THEN stripZeros(k \div 10, digits - 1)
    ELSE padStart(toString(k), digits, "0")

frequencyToString(k) == "0." \o stripZeros(k, 3)

\* 50 + 50*cos(rad), 50 + 50*sin(rad), 50 - 50*cos(rad), 50 - 50*sin(rad) with
\* rad = (angle - 90) * Math.PI / 180, evaluated in IEEE-754 double precision
\* and formatted by the template literal, at the sampled angles
endpoints(ang) ==
    CASE ang = 0   -> <<"50", "0", "50", "100">>
      [] ang = 90  -> <<"100", "50", "0", "50">>
      [] ang = 180 -> <<"50", "100", "50", "0">>
      [] ang = 270 -> <<"0", "50.00000000000001", "100", "49.99999999999999">>
      [] ang = 360 -> <<"49.99999999999999", "0", "50.00000000000001", "100">>
      [] ang = 450 -> <<"100", "49.999999999999986", "0", "50.000000000000014">>

url(id) == "url(#" \o id \o ")"

fullSize == << <<"width", "100%">>, <<"height", "100%">> >>

\* colorStops.map(stop => `<stop offset="${stop.offset}%" stop-color="${stop.color}" />`)
stopTags(stops) ==
    [i \in 1..Len(stops) |->
        Empty("stop", << <<"offset", toString(stops[i].offset) \o "%">>,
                         <<"stop-color", stops[i].color>> >>)]

gradientTags(gt, ang, stops, gradientId) ==
    IF gt = "linear"
    THEN LET p == endpoints(ang) IN
         << Open("linearGradient",
                 << <<"id", gradientId>>,
                    <<"x1", p[1] \o "%">>, <<"y1", p[2] \o "%">>,
                    <<"x2", p[3] \o "%">>, <<"y2", p[4] \o "%">> >>) >>
         \o stopTags(stops) \o << Close("linearGradient") >>
    ELSE << Open("radialGradient", << <<"id", gradientId>> >>) >>
         \o stopTags(stops) \o << Close("radialGradient") >>

turbulenceTag(nz) ==
    Empty("feTurbulence",
          << <<"type", "fractalNoise">>,
             <<"baseFrequency", frequencyToString(nz.baseFrequency)>>,
             <<"numOctaves", toString(nz.numOctaves)>>,
             <<"result", "turbulence">> >>)

\* faulty variant: the scale taken from numOctaves
displacementTagMutant(nz) ==
    Empty("feDisplacementMap",
          << <<"in", "SourceGraphic">>, <<"in2", "turbulence">>,
             <<"scale", toString(nz.numOctaves)>>,
             <<"xChannelSelector", "R">>, <<"yChannelSelector", "G">> >>)
displacementTag(nz) ==
    Empty("feDisplacementMap",
          << <<"in", "SourceGraphic">>, <<"in2", "turbulence">>,
             <<"scale", toString(nz.scale)>>,
             <<"xChannelSelector", "R">>, <<"yChannelSelector", "G">> >>)

filterTags(nz, filterId) ==
    << Open("filter", << <<"id", filterId>>, <<"x", "-50%">>, <<"y", "-50%">>,
                         <<"width", "200%">>, <<"height", "200%">> >>),
       turbulenceTag(nz),
       displacementTag(nz),
       Close("filter") >>

patternTags(patternId, gradientId, filterId) ==
    << Open("pattern", << <<"id", patternId>> >> \o fullSize
                       \o << <<"patternUnits", "objectBoundingBox">> >>),
       Empty("rect", fullSize \o << <<"fill", url(gradientId)>>,
                                    <<"filter", url(filterId)>> >>),
       Close("pattern") >>

\* tGradient, tFilter, tPattern: the readings of Date.now() for the three
\* identifiers the markup uses (turbulenceId is computed and never used)
generateSVG(gt, ang, stops, nz, tGradient, tFilter, tPattern) ==
    LET gradientId == "gradient-" \o toString(tGradient)
        filterId == "filter-" \o toString(tFilter)
        patternId == "pattern-" \o toString(tPattern)
        svgOpen == Open("svg", fullSize
                          \o << <<"xmlns", "http://www.w3.org/2000/svg">> >>)
    IN  IF nz.enabled
        THEN << svgOpen, Open("defs", <<>>) >>
             \o gradientTags(gt, ang, stops, gradientId)
             \o filterTags(nz, filterId)
             \o patternTags(patternId, gradientId, filterId)
             \o << Close("defs"),
                   Empty("rect", fullSize \o << <<"fill", url(patternId)>> >>),
                   Close("svg") >>
        ELSE << svgOpen, Open("defs", <<>>) >>
             \o gradientTags(gt, ang, stops, gradientId)
             \o << Close("defs"),
                   Empty("rect", fullSize \o << <<"fill", url(gradientId)>> >>),
                   Close("svg") >>

\* one call of generateSVG on the given state at the present clock reading;
\* the readings of one synchronous call are taken to be equal
generate(gt, ang, stops, nz) == generateSVG(gt, ang, stops, nz, clock, clock, clock)

(***************************************************************************)
(* Initial state: the useState initialisers and the first render.          *)
(***************************************************************************)
noFile == [name |-> "", content |-> <<>>]

Init ==
    /\ gradientType = "linear"
    /\ angle = 90
    /\ colorStops = initialColorStops
    /\ noise = initialNoise
    /\ copied = FALSE
    /\ clock = ClockStart
    /\ svgCode = generateSVG("linear", 90, initialColorStops, initialNoise,
                             ClockStart, ClockStart, ClockStart)
    /\ pendingWrites = <<>>
    /\ clipboard = <<>>
    /\ timers = <<>>
    /\ download = noFile

\* const svgCode = generateSVG(): the render that follows a state change
render == svgCode' = generate(gradientType', angle', colorStops', noise')

\* the clock advances by d; past the limit only up to the moment the next
\* timer is due
Tick(d, limit) ==
    /\ (clock + d > limit) => (timers # <<>> /\ clock < Head(timers))
    /\ clock' = clock + d
    /\ UNCHANGED <<gradientType, angle, colorStops, noise, copied, svgCode,
                   pendingWrites, clipboard, timers, download>>

\* a millisecond passes while the configuration is edited
TickMs == Tick(1, ClockStart + MaxTicks)

\* the last instant at which the copy button is clicked
sessionEnd == ClockStart + MaxSeconds * 1000

\* a second passes while markup is exported
TickSecond == Tick(1000, sessionEnd)

(***************************************************************************)
(* Handlers of the colour stops.                                           *)
(***************************************************************************)
addColorStop ==
    \E r \in RandomDraws :
        /\ colorStops' = sortByOffset(Append(colorStops, newStop(clock, r)))
        /\ UNCHANGED <<gradientType, angle, noise, copied, clock,
                       pendingWrites, clipboard, timers, download>>
        /\ render

removeColorStop(id) ==
    IF Len(colorStops) > 2
    THEN /\ colorStops' = filterOut(colorStops, id)
         /\ UNCHANGED <<gradientType, angle, noise, copied, clock,
                        pendingWrites, clipboard, timers, download>>
         /\ render
    ELSE UNCHANGED vars

updateColorStop(id, field, value) ==
    /\ colorStops' = sortByOffset(mapField(colorStops, id, field, value))
    /\ UNCHANGED <<gradientType, angle, noise, copied, clock,
                   pendingWrites, clipboard, timers, download>>
    /\ render

\* the remove button and the two inputs of a stop that is shown
editColorStop ==
    \E id \in stopIds(colorStops) :
        \/ removeColorStop(id)
        \/ \E c \in ColorPicks : updateColorStop(id, "color", c)
        \/ \E o \in OffsetInputs : updateColorStop(id, "offset", o)

(***************************************************************************)
(* Handlers of the other controls.  A setter called with the value the     *)
(* state already holds causes no render; setNoise always passes a new      *)
(* object.                                                                 *)
(***************************************************************************)
setGradientType(v) ==
    /\ gradientType' = v
    /\ UNCHANGED <<angle, colorStops, noise, copied, clock,
                   pendingWrites, clipboard, timers, download>>
    /\ IF v = gradientType THEN UNCHANGED svgCode ELSE render

\* the angle input is shown for a linear gradient only
setAngle(v) ==
    /\ gradientType = "linear"
    /\ angle' = v
    /\ UNCHANGED <<gradientType, colorStops, noise, copied, clock,
                   pendingWrites, clipboard, timers, download>>
    /\ IF v = angle THEN UNCHANGED svgCode ELSE render

setNoise(v) ==
    /\ noise' = v
    /\ UNCHANGED <<gradientType, angle, colorStops, copied, clock,
                   pendingWrites, clipboard, timers, download>>
    /\ render

\* the checkbox delivers the opposite of what it shows
toggleNoise == setNoise([noise EXCEPT !.enabled = ~noise.enabled])

\* the three sliders are shown while the noise is enabled
slideNoise ==
    /\ noise.enabled
    /\ \/ \E f \in FrequencyControl : setNoise([noise EXCEPT !.baseFrequency = f])
       \/ \E n \in OctavesControl : setNoise([noise EXCEPT !.numOctaves = n])
       \/ \E k \in ScaleControl : setNoise([noise EXCEPT !.scale = k])

chooseGradientType == \E v \in {"linear", "radial"} : setGradientType(v)

slideAngle == \E v \in AngleControl : setAngle(v)

(***************************************************************************)
(* Export: copySVG up to its await, its two continuations, the reset       *)
(* timer's callback, and downloadSVG.                                      *)
(***************************************************************************)
removeAt(s, i) == SubSeq(s, 1, i - 1) \o SubSeq(s, i + 1, Len(s))

\* navigator.clipboard.writeText(generateSVG()) is started
copySVG ==
    /\ clock <= sessionEnd
    /\ Len(pendingWrites) + Len(timers) < MaxPending
    /\ pendingWrites' = Append(pendingWrites,
                               generate(gradientType, angle, colorStops, noise))
    /\ UNCHANGED <<gradientType, angle, colorStops, noise, copied, clock,
                   svgCode, clipboard, timers, download>>

\* faulty variant: the reset timer is not set
copyResolvedMutant ==
    \E i \in 1..Len(pendingWrites) :
        /\ clipboard' = pendingWrites[i]
        /\ pendingWrites' = removeAt(pendingWrites, i)
        /\ copied' = TRUE
        /\ UNCHANGED <<gradientType, angle, colorStops, noise, clock, download,
                       timers>>
        /\ IF copied THEN UNCHANGED svgCode ELSE render
\* the write succeeded: setCopied(true); setTimeout(() => setCopied(false), 2000)
copyResolved ==
    \E i \in 1..Len(pendingWrites) :
        /\ clipboard' = pendingWrites[i]
        /\ pendingWrites' = removeAt(pendingWrites, i)
        /\ copied' = TRUE
        /\ timers' = Append(timers, clock + CopiedDelay)
        /\ UNCHANGED <<gradientType, angle, colorStops, noise, clock, download>>
        /\ IF copied THEN UNCHANGED svgCode ELSE render

\* the write failed: console.error('Failed to copy:', err)
copyRejected ==
    \E i \in 1..Len(pendingWrites) :
        /\ pendingWrites' = removeAt(pendingWrites, i)
        /\ UNCHANGED <<gradientType, angle, colorStops, noise, copied, clock,
                       svgCode, clipboard, timers, download>>

\* () => setCopied(false), run once its delay has passed; timers of equal
\* delay run in the order they were set
copiedTimeout ==
    /\ timers # <<>>
    /\ Head(timers) <= clock
    /\ timers' = Tail(timers)
    /\ copied' = FALSE
    /\ UNCHANGED <<gradientType, angle, colorStops, noise, clock,
                   pendingWrites, clipboard, download>>
    /\ IF copied THEN render ELSE UNCHANGED svgCode

downloadSVG ==
    /\ download' = [name |-> "gradient-background.svg",
                    content |-> generate(gradientType, angle, colorStops, noise)]
    /\ UNCHANGED <<gradientType, angle, colorStops, noise, copied, clock,
                   svgCode, pendingWrites, clipboard, timers>>

(***************************************************************************)
(* Specifications.                                                         *)
(***************************************************************************)
\* editing the colour stops
NextStops ==
    \/ TickMs
    \/ Len(colorStops) < MaxStops /\ addColorStop
    \/ editColorStop

SpecStops == Init /\ [][NextStops]_vars

\* editing the colour stops within one reading of the clock
NextSameInstant ==
    \/ Len(colorStops) < Len(initialColorStops) + MaxBurst /\ addColorStop
    \/ editColorStop

SpecSameInstant == Init /\ [][NextSameInstant]_vars

\* editing the gradient type, the angle and the noise
NextSettings == TickMs \/ chooseGradientType \/ slideAngle \/ toggleNoise \/ slideNoise

SpecSettings == Init /\ [][NextSettings]_vars

\* exporting the markup of the initial configuration, by the clipboard and by
\* download
NextExport ==
    \/ TickSecond
    \/ copySVG
    \/ copyResolved
    \/ copyRejected
    \/ copiedTimeout
    \/ downloadSVG

\* time passes while a timer waits, and a timer whose delay has passed runs
SpecExport ==
    Init /\ [][NextExport]_vars /\ WF_vars(TickSecond) /\ WF_vars(copiedTimeout)

\* the whole component
Next == NextStops \/ NextSettings \/ NextExport

Spec == Init /\ [][Next]_vars

(***************************************************************************)
(* Reading markup.                                                         *)
(***************************************************************************)
\* positions of the start tags named tag
tagsNamed(doc, tag) ==
    {i \in 1..Len(doc) : doc[i].tag = tag /\ doc[i].kind # "close"}

hasAttr(t, name) == \E k \in 1..Len(t.attrs) : t.attrs[k][1] = name

attr(t, name) ==
    t.attrs[CHOOSE k \in 1..Len(t.attrs) : t.attrs[k][1] = name][2]

idsOf(doc) == {attr(doc[i], "id") : i \in {j \in 1..Len(doc) : hasAttr(doc[j], "id")}}

\* position i lies between <tag ...> and </tag>
inside(doc, i, tag) ==
    /\ \E a \in 1..(i - 1) : doc[a].tag = tag /\ doc[a].kind = "open"
    /\ \E b \in (i + 1)..Len(doc) : doc[b].tag = tag /\ doc[b].kind = "close"

sortedByOffset(s) == \A i \in 1..(Len(s) - 1) : s[i].offset <= s[i + 1].offset

(***************************************************************************)
(* Properties of the colour stops.                                         *)
(***************************************************************************)
\* C1: in every state reached by adding, editing and removing stops, the
\* stops are in ascending (non-decreasing) order of offset.
C1_SortedByOffset == sortedByOffset(colorStops)

\* an edit has moved stop "2" in front of stop "1" and a new stop sits between
C1_Witness ==
    /\ Len(colorStops) = 3
    /\ colorStops[1].id = "2"
    /\ colorStops[2].id \notin {"1", "2"}
    /\ colorStops[3].id = "1"

\* C2: in every state reached by adding, editing and removing stops, also
\* when stops are added within one reading of the clock, at least two stops
\* remain.
C2_AtLeastTwoStops == Len(colorStops) >= 2

\* C3: in every reachable state the ids of the stops are pairwise distinct,
\* also when two stops are added within one reading of the clock.
C3_DistinctIds ==
    \A i, j \in 1..Len(colorStops) :
        i # j => colorStops[i].id # colorStops[j].id

\* C4: addColorStop adds exactly one stop, of offset 50; the stops that were
\* there keep their id, colour, offset and order; gradientType, angle and
\* noise stay as they are.
C4_AddColorStop ==
    [][(addColorStop \/ Len(colorStops') > Len(colorStops)) =>
        /\ Len(colorStops') = Len(colorStops) + 1
        /\ \E i \in 1..Len(colorStops') :
              /\ colorStops'[i].offset = 50
              /\ removeAt(colorStops', i) = colorStops
        /\ UNCHANGED <<gradientType, angle, noise>>]_vars

\* a new stop has been placed before a stop that was there
C4_Witness ==
    /\ Len(colorStops) = 3
    /\ colorStops[2].id \notin {"1", "2"}
    /\ colorStops[2].offset = 50
    /\ colorStops[3].id \in {"1", "2"}
    /\ colorStops[3].offset = 100
    /\ colorStops[1].id \in {"1", "2"}

(***************************************************************************)
(* Properties of the generated markup.                                     *)
(***************************************************************************)
\* C5: the rendered markup of a configuration without noise has no filter
\* and no pattern and its single rectangle is filled with the gradient;
\* with noise it has exactly one feTurbulence with the configured
\* baseFrequency and numOctaves and exactly one feDisplacementMap with the
\* configured scale, both in the one filter, which is applied to the
\* gradient-filled rectangle inside the one pattern, and the final rectangle
\* is filled with that pattern.
C5_NoiseMarkup ==
    LET doc == svgCode
        gradients == tagsNamed(doc, "linearGradient") \cup tagsNamed(doc, "radialGradient")
        filters == tagsNamed(doc, "filter")
        patterns == tagsNamed(doc, "pattern")
        turbulences == tagsNamed(doc, "feTurbulence")
        displacements == tagsNamed(doc, "feDisplacementMap")
        rects == tagsNamed(doc, "rect")
    IN  /\ Cardinality(gradients) = 1
        /\ gradients = tagsNamed(doc, IF gradientType = "linear"
                                      THEN "linearGradient" ELSE "radialGradient")
        /\ \A g \in gradients :
            IF ~noise.enabled
            THEN /\ filters = {} /\ patterns = {}
                 /\ turbulences = {} /\ displacements = {}
                 /\ Cardinality(rects) = 1
                 /\ \A r \in rects :
                       /\ attr(doc[r], "fill") = url(attr(doc[g], "id"))
                       /\ ~hasAttr(doc[r], "filter")
            ELSE /\ Cardinality(filters) = 1 /\ Cardinality(patterns) = 1
                 /\ Cardinality(turbulences) = 1 /\ Cardinality(displacements) = 1
                 /\ Cardinality(rects) = 2
                 /\ \A t \in turbulences :
                       /\ inside(doc, t, "filter")
                       /\ attr(doc[t], "baseFrequency")
                            = frequencyToString(noise.baseFrequency)
                       /\ attr(doc[t], "numOctaves") = toString(noise.numOctaves)
                 /\ \A d \in displacements :
                       /\ inside(doc, d, "filter")
                       /\ attr(doc[d], "scale") = toString(noise.scale)
                 /\ \A f \in filters : \A p \in patterns :
                       /\ \E r \in rects :
                             /\ inside(doc, r, "pattern")
                             /\ attr(doc[r], "fill") = url(attr(doc[g], "id"))
                             /\ attr(doc[r], "filter") = url(attr(doc[f], "id"))
                       /\ \E r \in rects :
                             /\ ~inside(doc, r, "pattern")
                             /\ ~inside(doc, r, "defs")
                             /\ attr(doc[r], "fill") = url(attr(doc[p], "id"))
                             /\ ~hasAttr(doc[r], "filter")

\* a radial gradient is rendered with noise whose three settings were moved
C5_Witness ==
    /\ noise.enabled
    /\ gradientType = "radial"
    /\ noise.baseFrequency = 100
    /\ noise.numOctaves = 8
    /\ noise.scale = 0
    /\ Cardinality(tagsNamed(svgCode, "feDisplacementMap")) = 1

\* C6: the identifiers of two calls of generateSVG differ: those of a
\* downloaded file or of a text handed to the clipboard from those of the
\* markup rendered last, also when both calls read the same clock value.
C6_UniqueIdsPerCall ==
    /\ download # noFile => idsOf(download.content) \cap idsOf(svgCode) = {}
    /\ \A i \in 1..Len(pendingWrites) :
          idsOf(pendingWrites[i]) \cap idsOf(svgCode) = {}

\* C7: the text copySVG hands to the clipboard and the text downloadSVG
\* puts in the file are the markup shown at that moment (svgCode), whatever
\* time has passed since it was rendered.
C7_ExportsWhatIsShown ==
    [][/\ copySVG => pendingWrites'[Len(pendingWrites')] = svgCode
       /\ downloadSVG => download'.content = svgCode]_vars

\* C8 as stated: the angle is at least 0 and below 360.
C8_AngleBelow360 == angle >= 0 /\ angle < 360

\* C8, amended: the angle is within 0 .. 360, both ends included.
C8_AngleWithinRange == angle >= 0 /\ angle <= 360

\* the angle control has been moved to its end
C8_Witness == angle = 360 /\ gradientType = "linear"

(***************************************************************************)
(* Properties of the "Copied!" label.                                      *)
(***************************************************************************)
\* C9: copied becomes true only in the step in which a clipboard write
\* succeeds; a write that fails changes nothing but the set of writes in
\* flight; copied becomes false only by the reset timer; and whenever copied
\* is true it is false again later.
C9_CopiedLabel ==
    /\ [][(~copied /\ copied') =>
            \E i \in 1..Len(pendingWrites) :
                /\ clipboard' = pendingWrites[i]
                /\ pendingWrites' = removeAt(pendingWrites, i)]_vars
    /\ [][copyRejected =>
            UNCHANGED <<gradientType, angle, colorStops, noise, copied, clock,
                        svgCode, clipboard, timers, download>>]_vars
    /\ [][(copied /\ ~copied') =>
            (timers # <<>> /\ Head(timers) <= clock /\ timers' = Tail(timers))]_vars
    /\ (copied ~> ~copied)

\* two copies have succeeded and both reset timers are pending
C9_Witness == copied /\ Len(timers) = 2 /\ clipboard # <<>>

\* C10: when the label is reset, the delay of every successful copy has
\* passed: no reset timer of a later copy is still waiting for its time.
C10_FullDelayAfterLastCopy ==
    [][(copied /\ ~copied') =>
          \A i \in 1..Len(timers') : timers'[i] <= clock']_vars

=============================================================================
